---- MODULE Spec2Model ----
(***************************************************************************)
(* Batched per-threadblock GEMV (cpp/src_prims/linalg/batched/gemv.h).     *)
(*                                                                         *)
(* The host side is the call chain gemv -> gemvImplAx -> gemvImplY, which  *)
(* picks the two vector widths and launches gemvKernel with one group      *)
(* (thread block) per batch element.  Groups are scheduled in any order.   *)
(* Inside a group the lanes run the kernel text between two consecutive    *)
(* __syncthreads() together: in such an interval a lane touches only its   *)
(* own registers, read-only inputs and (lane 0) its own slice of y, so a   *)
(* group advances one interval at a time: LoadX, one RowReduce per         *)
(* sub-row, one Epilogue per outer iteration.                              *)
(*                                                                         *)
(* DataT is modelled by the integers (exact arithmetic); buffers are       *)
(* 0-based functions, as the C arrays are.                                 *)
(***************************************************************************)
EXTENDS Integers, Sequences, FiniteSets, TLC

(***************************************************************************)
(* Bounds of the model.                                                    *)
(***************************************************************************)
MaxM == 4
MaxN == 4
MaxBatch == 2
\* with more than one batch element, A holds at most this many elements
MaxBatchCells == 4
\* template parameter TPB (threads per block) of the instantiation checked
TPB == 2

\* sizeof(DataT): the element sizes a TxN_t vector type exists for
ElemSizes == {1, 2, 4, 8, 16}
Alphas == {0, 2}
Betas == {0, 3}
EpilogueOps == {"Nop", "Relu"}
Seeds == {0, 1}
\* what uninitialised dynamic shared memory may hold
SmemGarbage == {0, 5}
\* what cudaGetLastError() may report after the launch
LaunchOutcomes == {"cudaSuccess", "cudaErrorInvalidConfiguration"}

VARIABLES
  sizeofT,      \* sizeof(DataT)
  m, n, batchSize, alpha, beta, op,   \* arguments of gemv
  seedY,        \* selects what the output buffer y holds before the call
  mem,          \* global memory: the buffers y, A, x, z
  warpSize,     \* lanes per warp, relative to TPB: the group is one warp
                \* (TPB) or spans several (1: every lane in a warp of its own)
  smem,         \* per group: the dynamic shared memory of the launch
  hpc,          \* host: which function of the call chain runs next
  VecLenAx,     \* template argument chosen by gemv (0: not yet)
  VecLenY,      \* template argument chosen by gemvImplAx (0: not yet)
  launches,     \* the kernel launches issued, in order
  lastError,    \* cudaGetLastError() after the launch
  grp,          \* per group: position in the kernel and the lanes' registers
  log,          \* every global-memory access issued by the kernel
  nwr,          \* per y index: number of stores that hit it
  vlog,         \* every vectorized load/store issued: buffer, element offset, width
  calls,        \* per y index: the epilogue invocations made with that index
  blk,          \* lane-level run: blockIdx.x of the group whose lanes are followed
  ln,           \* lane-level run: per lane, its position and registers
  sDot,         \* the shared word at smem + sizeof(BlockReduceSmem) (line 57)
  slog          \* lane-level run: every access to the dynamic shared memory

vars == <<sizeofT, m, n, batchSize, alpha, beta, op, seedY, mem, warpSize, smem,
          hpc, VecLenAx, VecLenY, launches, lastError, grp, log, nwr, vlog, calls,
          blk, ln, sDot, slog>>

\* the state of the lane-level run
lanevars == <<blk, ln, sDot, slog>>

inputs == <<sizeofT, m, n, batchSize, alpha, beta, op, seedY, warpSize, smem>>

Lanes == 0 .. (TPB - 1)
Groups == 0 .. (batchSize - 1)

(***************************************************************************)
(* Contents of the caller's buffers.                                       *)
(***************************************************************************)
GenA(k) == ((3 * k + 1) % 5) - 2
GenX(k) == (k % 3) + 1
GenZ(k) == ((2 * k) % 5) - 2
GenY(s, k) == ((k + s) % 3) + 3

BufA == [k \in 0 .. (batchSize * m * n - 1) |-> GenA(k)]
BufX == [k \in 0 .. (batchSize * n - 1) |-> GenX(k)]
BufZ == [k \in 0 .. (batchSize * m - 1) |-> GenZ(k)]
BufY(s) == [k \in 0 .. (batchSize * m - 1) |-> GenY(s, k)]

(***************************************************************************)
(* Sums.                                                                   *)
(***************************************************************************)
RECURSIVE SumUpTo(_, _)
\* f[0] + ... + f[cnt-1]
SumUpTo(f, cnt) == IF cnt <= 0 THEN 0 ELSE f[cnt - 1] + SumUpTo(f, cnt - 1)

(***************************************************************************)
(* WidthDispatcher: the two conditional ladders.                           *)
(***************************************************************************)
\* the ladder of gemv with the first rung dropped
gemvVecLenAx_No16(sz, cols) ==
  LET bytes == cols * sz IN
  IF (8 \div sz) # 0 /\ bytes % 8 = 0 THEN 8 \div sz
  ELSE IF (4 \div sz) # 0 /\ bytes % 4 = 0 THEN 4 \div sz
  ELSE IF (2 \div sz) # 0 /\ bytes % 2 = 0 THEN 2 \div sz
  ELSE IF (1 \div sz) # 0 THEN 1 \div sz
  ELSE 1

\* gemv: VecLenAx from n * sizeof(DataT)
gemvVecLenAx(sz, cols) ==
  LET bytes == cols * sz IN
  IF (16 \div sz) # 0 /\ bytes % 16 = 0 THEN 16 \div sz
  ELSE IF (8 \div sz) # 0 /\ bytes % 8 = 0 THEN 8 \div sz
  ELSE IF (4 \div sz) # 0 /\ bytes % 4 = 0 THEN 4 \div sz
  ELSE IF (2 \div sz) # 0 /\ bytes % 2 = 0 THEN 2 \div sz
  ELSE IF (1 \div sz) # 0 THEN 1 \div sz
  ELSE 1

\* the ladder of gemvImplAx testing the byte size of a row (n) instead of m
gemvImplAxVecLenY_OfN(sz, rows) ==
  gemvVecLenAx(sz, n)

\* gemvImplAx: VecLenY from m * sizeof(DataT)
gemvImplAxVecLenY(sz, rows) ==
  LET bytes == rows * sz IN
  IF (16 \div sz) # 0 /\ bytes % 16 = 0 THEN 16 \div sz
  ELSE IF (8 \div sz) # 0 /\ bytes % 8 = 0 THEN 8 \div sz
  ELSE IF (4 \div sz) # 0 /\ bytes % 4 = 0 THEN 4 \div sz
  ELSE IF (2 \div sz) # 0 /\ bytes % 2 = 0 THEN 2 \div sz
  ELSE IF (1 \div sz) # 0 THEN 1 \div sz
  ELSE 1

(***************************************************************************)
(* VectorizedAccessor (TxN_t of vectorized.h): L contiguous elements.      *)
(* An element offset outside the buffer is never issued by the kernel      *)
(* (C5_BatchIsolation, C9_TailRows, C10_ColumnBounds); the accessor is     *)
(* made total by reading 0 there and dropping such a store.                *)
(***************************************************************************)
TxNFill(L, v) == [e \in 0 .. (L - 1) |-> v]

TxNLoad(buf, off, L) ==
  [e \in 0 .. (L - 1) |-> IF (off + e) \in DOMAIN buf THEN buf[off + e] ELSE 0]

TxNStore(buf, off, vals, L) ==
  [k \in DOMAIN buf |-> IF k >= off /\ k < off + L THEN vals[k - off] ELSE buf[k]]

(***************************************************************************)
(* Epilogue operations: Nop is the default argument of gemv; Relu is a     *)
(* caller-supplied epilogue that clamps negative values to zero.           *)
(***************************************************************************)
Nop(v, idx) == v

Relu(v, idx) == IF v < 0 THEN 0 ELSE v

ApplyOp(o, v, idx) == IF o = "Nop" THEN Nop(v, idx) ELSE Relu(v, idx)

(***************************************************************************)
(* DotProductReducer (dotProduct, broadcast = false).                      *)
(***************************************************************************)
\* lines 46-53: the lane's partial sum
dotProductVal(tid, xv, yv, len, VecLen) ==
  IF tid < len
    THEN SumUpTo([e \in 0 .. (VecLen - 1) |-> xv[e] * yv[e]], VecLen)
    ELSE 0

\* cub::BlockReduce<DataT, TPB>: the lanes of one warp combine their values in
\* registers; each warp's first lane deposits the warp's aggregate in slot
\* warp_aggregates[warp] of the TempStorage object its BlockReduce was
\* constructed over, and lane 0 adds slots 1 .. NumWarps-1 of its object.
WarpOf(t) == t \div warpSize

NumWarps == (TPB + warpSize - 1) \div warpSize

WarpAggregate(vals, w) ==
  SumUpTo([t \in Lanes |-> IF WarpOf(t) = w THEN vals[t] ELSE 0], TPB)

\* line 56, `auto temp = *reinterpret_cast<BlockReduceSmem*>(smem)`: temp is a
\* by-value copy of the (never written) shared scratch, private to lane t; the
\* only deposit that reaches it is lane t's own
TempStorageSeenBy(b, t, vals) ==
  [w \in 0 .. (NumWarps - 1) |->
     IF t = w * warpSize THEN WarpAggregate(vals, w) ELSE smem[b][w]]

\* line 58, BlockReduce(temp).Sum(val) on lane 0: the block-wide sum as lane 0
\* finds it in its TempStorage
BlockReduceSum0(b, vals) == SumUpTo(TempStorageSeenBy(b, 0, vals), NumWarps)

\* line 58 on a lane other than 0: cub leaves the return value undefined; it is
\* the lane's own value or its warp's aggregate
BlockReduceSumOther(t, vals, u) ==
  IF u = "own" THEN vals[t] ELSE WarpAggregate(vals, WarpOf(t))

UndefinedOutcomes == {"own", "warp"}

\* lines 43-67 with broadcast = false: what dotProduct returns on lane t
dotProduct(b, t, vals, u) ==
  IF t = 0 THEN BlockReduceSum0(b, vals) ELSE BlockReduceSumOther(t, vals, u)

(***************************************************************************)
(* BatchedGemvKernel (gemvKernel): index arithmetic and guards.            *)
(***************************************************************************)
\* a column offset that forgets the width of the chunk
LaneIdx_Unscaled(t) == t

\* line 80: idx = threadIdx.x * VecTypeAx::Ratio
LaneIdx(t) == t * VecLenAx

\* a batch offset that forgets the group index
BatchOffset_Zero(b) == 0

\* line 81: batchOffset = blockIdx.x * m * n
BatchOffset(b) == b * m * n

\* a guard that lets every lane load
LoadXGuard_Always(t) == TRUE

\* line 84: if (idx < n) before _x.load
LoadXGuard(t) == LaneIdx(t) < n

\* line 91: if (idx < n) before _a.load
LoadAGuard(t) == LaneIdx(t) < n

\* a guard that lets every lane run the epilogue
WriterGuard_Always(t) == TRUE

\* line 98: if (threadIdx.x == 0)
WriterGuard(t) == t = 0

\* lines 82-86 on lane t of group b: the _x chunk
KernelChunkX(b, t) ==
  IF LoadXGuard(t)
    THEN TxNLoad(mem.x, b * n + LaneIdx(t), VecLenAx)
    ELSE TxNFill(VecLenAx, 0)

\* lines 90-93 on lane t of group b: the _a chunk of row `row`
KernelChunkA(b, row, t) ==
  IF LoadAGuard(t)
    THEN TxNLoad(mem.A, BatchOffset(b) + row * n + LaneIdx(t), VecLenAx)
    ELSE TxNFill(VecLenAx, 0)

\* an access record: buffer, "r" or "w", flat element index, group, lane, and
\* the row and column the kernel addressed (-1: the buffer has none)
Access(buf, rw, k, b, t, row, col) ==
  [buf |-> buf, rw |-> rw, k |-> k, b |-> b, t |-> t, row |-> row, col |-> col]

\* a vectorized access record: buffer, "r" or "w", the element offset handed to
\* TxN_t::load / TxN_t::store, the width of the vector type, group and lane
VAccess(buf, rw, off, L, b, t) ==
  [buf |-> buf, rw |-> rw, off |-> off, L |-> L, b |-> b, t |-> t]

\* the registers of a group at kernel entry (lines 78-79: declared, not set)
GroupAtEntry ==
  [pc |-> "loadx", i |-> 0, j |-> 0,
   x |-> [t \in Lanes |-> TxNFill(VecLenAx, 0)],
   a |-> [t \in Lanes |-> TxNFill(VecLenAx, 0)],
   y |-> [t \in Lanes |-> TxNFill(VecLenY, 0)],
   z |-> [t \in Lanes |-> TxNFill(VecLenY, 0)],
   val |-> [t \in Lanes |-> 0]]

Kernel(b) == hpc \in {"returned"} /\ lastError = "cudaSuccess" /\ b \in DOMAIN grp

\* lines 80-86: every lane zero-fills _x and _z and loads its chunk of x_b
LoadX(b) ==
  /\ Kernel(b)
  /\ grp[b].pc = "loadx"
  /\ grp' = [grp EXCEPT ![b] =
       [@ EXCEPT
          !.x = [t \in Lanes |-> KernelChunkX(b, t)],
          !.z = [t \in Lanes |-> TxNFill(VecLenY, 0)],
          !.i = 0, !.j = 0,
          !.pc = IF 0 < m THEN "row" ELSE "done"]]
  /\ log' = log \cup
       {Access("x", "r", b * n + LaneIdx(t) + e, b, t, -1, LaneIdx(t) + e) :
          t \in {l \in Lanes : LoadXGuard(l)}, e \in 0 .. (VecLenAx - 1)}
  /\ vlog' = vlog \cup
       {VAccess("x", "r", b * n + LaneIdx(t), VecLenAx, b, t) :
          t \in {l \in Lanes : LoadXGuard(l)}}
  /\ UNCHANGED <<inputs, mem, hpc, VecLenAx, VecLenY, launches, lastError, nwr,
                 calls, lanevars>>

\* lines 89-97, one iteration of the sub-row loop: every lane zero-fills _a,
\* loads its chunk of row i+j, the group reduces, _y[j] receives what
\* dotProduct returns, and the group passes __syncthreads()
RowReduce(b) ==
  /\ Kernel(b)
  /\ grp[b].pc = "row"
  /\ LET g == grp[b]
         row == g.i + g.j
         av == [t \in Lanes |-> KernelChunkA(b, row, t)]
         vals == [t \in Lanes |-> dotProductVal(t, av[t], g.x[t], n, VecLenAx)]
     IN /\ \E u \in UndefinedOutcomes :
             grp' = [grp EXCEPT ![b] =
               [@ EXCEPT
                  !.a = av,
                  !.val = vals,
                  !.y = [t \in Lanes |->
                           [g.y[t] EXCEPT ![g.j] = dotProduct(b, t, vals, u)]],
                  !.j = IF g.j + 1 < VecLenY THEN g.j + 1 ELSE 0,
                  !.pc = IF g.j + 1 < VecLenY THEN "row" ELSE "epilogue"]]
        /\ log' = log \cup
             {Access("A", "r", BatchOffset(b) + row * n + LaneIdx(t) + e, b, t,
                     row, LaneIdx(t) + e) :
                t \in {l \in Lanes : LoadAGuard(l)}, e \in 0 .. (VecLenAx - 1)}
        /\ vlog' = vlog \cup
             {VAccess("A", "r", BatchOffset(b) + row * n + LaneIdx(t), VecLenAx,
                      b, t) :
                t \in {l \in Lanes : LoadAGuard(l)}}
  /\ UNCHANGED <<inputs, mem, hpc, VecLenAx, VecLenY, launches, lastError, nwr,
                 calls, lanevars>>

\* a store that lands in the z buffer
KernelStore_IntoZ(memv, off, vals) ==
  [memv EXCEPT !.z = TxNStore(memv.z, off, vals, VecLenY)]

\* line 107: _y.store(y, blockIdx.x * m + i)
KernelStore(memv, off, vals) ==
  [memv EXCEPT !.y = TxNStore(memv.y, off, vals, VecLenY)]

\* line 100: _z.load(y, blockIdx.x * m + i): the chunk comes from the y buffer
KernelLoadZ(memv, off) == TxNLoad(memv.y, off, VecLenY)

\* line 104-105: the first argument of op
EpilogueArg(dot, zTerm) == alpha * dot + beta * zTerm

\* an index that forgets the group
EpilogueIdx_InSlice(b, i, j) == i + j

\* line 105: the second argument of op, blockIdx.x * m + i + j
EpilogueIdx(b, i, j) == b * m + i + j

\* the record of one invocation of op: who called, the two registers the
\* argument was built from, the arguments and the value returned
OpCall(b, t, dot, zTerm, idx) ==
  [b |-> b, t |-> t, dot |-> dot, zTerm |-> zTerm,
   arg |-> EpilogueArg(dot, zTerm), idx |-> idx,
   ret |-> ApplyOp(op, EpilogueArg(dot, zTerm), idx)]

\* lines 99-107 on one lane; w holds the memory, the group's _z and _y
\* registers, the access logs, the store counts and the epilogue invocations
EpilogueLane(w, b, t) ==
  LET i == grp[b].i
      off == b * m + i
      chunk == 0 .. (VecLenY - 1)
      zv == IF beta # 0 THEN KernelLoadZ(w.mem, off) ELSE w.z[t]
      yv == [j \in chunk |->
               OpCall(b, t, w.y[t][j], zv[j], EpilogueIdx(b, i, j)).ret]
  IN [mem |-> KernelStore(w.mem, off, yv),
      vlog |-> w.vlog
               \cup (IF beta # 0 THEN {VAccess("y", "r", off, VecLenY, b, t)} ELSE {})
               \cup {VAccess("y", "w", off, VecLenY, b, t)},
      calls |-> [k \in DOMAIN w.calls |->
                   IF k >= off /\ k < off + VecLenY
                     THEN Append(w.calls[k],
                                 OpCall(b, t, w.y[t][k - off], zv[k - off],
                                        EpilogueIdx(b, i, k - off)))
                     ELSE w.calls[k]],
      z |-> [w.z EXCEPT ![t] = zv],
      y |-> [w.y EXCEPT ![t] = yv],
      log |-> w.log
               \cup (IF beta # 0
                       THEN {Access("y", "r", off + j, b, t, i + j, -1) : j \in chunk}
                       ELSE {})
               \cup {Access("y", "w", off + j, b, t, i + j, -1) : j \in chunk},
      nwr |-> [k \in DOMAIN w.nwr |->
                 IF k >= off /\ k < off + VecLenY THEN w.nwr[k] + 1 ELSE w.nwr[k]]]

RECURSIVE EpilogueLanes(_, _, _)
\* lines 98-108 on lanes t, t+1, ..., TPB-1
EpilogueLanes(w, b, t) ==
  IF t >= TPB THEN w
  ELSE EpilogueLanes(IF WriterGuard(t) THEN EpilogueLane(w, b, t) ELSE w, b, t + 1)

\* lines 98-108 and the increment of line 87
Epilogue(b) ==
  /\ Kernel(b)
  /\ grp[b].pc = "epilogue"
  /\ LET g == grp[b]
         w == EpilogueLanes([mem |-> mem, z |-> g.z, y |-> g.y,
                             log |-> log, nwr |-> nwr,
                             vlog |-> vlog, calls |-> calls], b, 0)
     IN /\ mem' = w.mem
        /\ log' = w.log
        /\ nwr' = w.nwr
        /\ vlog' = w.vlog
        /\ calls' = w.calls
        /\ grp' = [grp EXCEPT ![b] =
             [@ EXCEPT !.z = w.z, !.y = w.y,
                       !.i = g.i + VecLenY,
                       !.pc = IF g.i + VecLenY < m THEN "row" ELSE "done"]]
  /\ UNCHANGED <<inputs, hpc, VecLenAx, VecLenY, launches, lastError, lanevars>>

(***************************************************************************)
(* Host: gemv -> gemvImplAx -> gemvImplY.                                  *)
(***************************************************************************)
\* lines 172-196
gemv ==
  /\ hpc = "gemv"
  /\ VecLenAx' = gemvVecLenAx(sizeofT, n)
  /\ hpc' = "gemvImplAx"
  /\ UNCHANGED <<inputs, mem, VecLenY, launches, lastError, grp, log, nwr, vlog, calls,
               lanevars>>

\* lines 125-150
gemvImplAx ==
  /\ hpc = "gemvImplAx"
  /\ VecLenY' = gemvImplAxVecLenY(sizeofT, m)
  /\ hpc' = "gemvImplY"
  /\ UNCHANGED <<inputs, mem, VecLenAx, launches, lastError, grp, log, nwr, vlog, calls,
               lanevars>>

\* CUDA_CHECK (cuda_utils.h): throws unless the status is cudaSuccess
CUDA_CHECK(status) == IF status = "cudaSuccess" THEN "returned" ELSE "thrown"

\* the launch record of line 120-121: template arguments and configuration
Launch == [VecLenAx |-> VecLenAx, VecLenY |-> VecLenY, TPB |-> TPB,
           grid |-> batchSize, smemSize |-> NumWarps]

\* gemvImplY with the launch status dropped
gemvImplY_Unchecked ==
  /\ hpc = "gemvImplY"
  /\ \E status \in LaunchOutcomes :
       /\ launches' = Append(launches, Launch)
       /\ lastError' = status
       /\ hpc' = "returned"
       /\ grp' = IF status = "cudaSuccess" THEN [b \in Groups |-> GroupAtEntry] ELSE grp
  /\ UNCHANGED <<inputs, mem, VecLenAx, VecLenY, log, nwr, vlog, calls, lanevars>>

\* lines 112-123: one launch, then CUDA_CHECK(cudaGetLastError()); a rejected
\* launch runs no group
gemvImplY ==
  /\ hpc = "gemvImplY"
  /\ \E status \in LaunchOutcomes :
       /\ launches' = Append(launches, Launch)
       /\ lastError' = status
       /\ hpc' = CUDA_CHECK(status)
       /\ grp' = IF status = "cudaSuccess" THEN [b \in Groups |-> GroupAtEntry] ELSE grp
  /\ UNCHANGED <<inputs, mem, VecLenAx, VecLenY, log, nwr, vlog, calls, lanevars>>

(***************************************************************************)
(* The kernel lane by lane.  Each lane of group blk runs the kernel text   *)
(* at its own pace; the lanes meet only at barriers (__syncthreads() of    *)
(* line 96 and of line 63, and the one inside cub::BlockReduce::Sum) and   *)
(* in the warp-synchronous reduction of cub.  All barriers of a block are  *)
(* the same hardware barrier: a lane counts its arrivals in arr and passes *)
(* once no lane has arrived fewer times.  The access logs log, nwr, vlog   *)
(* and calls are histories of the group-level run and stay as they are.    *)
(***************************************************************************)
\* the registers of a lane at kernel entry
LaneAtEntry ==
  [pc |-> "loadx", i |-> 0, j |-> 0,
   x |-> TxNFill(VecLenAx, 0), a |-> TxNFill(VecLenAx, 0),
   y |-> TxNFill(VecLenY, 0), z |-> TxNFill(VecLenY, 0),
   val |-> 0, temp |-> << >>, dot |-> 0,
   bc |-> FALSE, caller |-> "gemvKernel",
   began |-> 0,     \* reductions begun: executions of line 56
   fin |-> 0,       \* reductions finished: returns of BlockReduce::Sum
   arr |-> 0,       \* arrivals at the block barrier
   nsync |-> 0]     \* arrivals at the __syncthreads() of line 96

\* a shared-memory access record: lane, "r" or "w", word of the dynamic
\* shared memory (words 0 .. NumWarps-1 hold the TempStorage, word NumWarps
\* is sDot[0])
SAccess(t, rw, word) == [t |-> t, rw |-> rw, word |-> word]

\* a barrier that lets every lane through at once
BarrierOpen_NoWait(t) == TRUE

\* __syncthreads(): lane t leaves once every lane has arrived as often as t
BarrierOpen(t) == \A u \in Lanes : ln[u].arr >= ln[t].arr

\* a barrier only the lanes that loaded a chunk arrive at
SyncGuard_Loaded(t) == LaneIdx(t) < n

\* line 96 stands in the sub-row loop outside every conditional: each lane
\* arrives
SyncGuard(t) == TRUE

\* a kernel that asks for the broadcast
KernelBroadcast_True == TRUE

\* line 95: the last argument of the call of dotProduct
KernelBroadcast == FALSE

\* line 87: the outer loop's increment and test
LaneNextRows(r) ==
  [r EXCEPT !.i = r.i + VecLenY, !.j = 0,
            !.pc = IF r.i + VecLenY < m THEN "loada" ELSE "exit"]

\* lines 89, 97, 98: the sub-row loop's increment and test, then the guard of
\* the epilogue
LaneNextSubRow(r, t) ==
  IF r.j + 1 < VecLenY THEN [r EXCEPT !.j = r.j + 1, !.pc = "loada"]
  ELSE IF WriterGuard(t) THEN [r EXCEPT !.pc = "epilogue"]
  ELSE LaneNextRows(r)

\* lines 80-86 on lane t
LaneLoadX(t) ==
  /\ Kernel(blk)
  /\ ln[t].pc = "loadx"
  /\ ln' = [ln EXCEPT ![t] =
       [@ EXCEPT !.x = KernelChunkX(blk, t),
                 !.a = TxNFill(VecLenAx, 0),
                 !.y = TxNFill(VecLenY, 0),
                 !.z = TxNFill(VecLenY, 0),
                 !.i = 0, !.j = 0,
                 !.pc = IF 0 < m THEN "loada" ELSE "exit"]]
  /\ UNCHANGED <<inputs, mem, hpc, VecLenAx, VecLenY, launches, lastError, grp,
                 log, nwr, vlog, calls, blk, sDot, slog>>

\* lines 90-95 on lane t: the chunk of row i+j, then the call of dotProduct
LaneLoadA(t) ==
  /\ Kernel(blk)
  /\ ln[t].pc = "loada"
  /\ ln' = [ln EXCEPT ![t] =
       [@ EXCEPT !.a = KernelChunkA(blk, ln[t].i + ln[t].j, t),
                 !.bc = KernelBroadcast,
                 !.caller = "gemvKernel",
                 !.pc = "val"]]
  /\ UNCHANGED <<inputs, mem, hpc, VecLenAx, VecLenY, launches, lastError, grp,
                 log, nwr, vlog, calls, blk, sDot, slog>>

\* lines 46-57 on lane t: the partial sum, then temp, the lane's own copy of
\* the TempStorage bytes of the shared memory
DotVal(t) ==
  /\ ln[t].pc = "val"
  /\ ln' = [ln EXCEPT ![t] =
       [@ EXCEPT !.val = dotProductVal(t, ln[t].a, ln[t].x, n, VecLenAx),
                 !.temp = smem[blk],
                 !.began = @ + 1,
                 !.pc = "sum"]]
  /\ slog' = slog \cup {SAccess(t, "r", w) : w \in 0 .. (NumWarps - 1)}
  /\ UNCHANGED <<inputs, mem, hpc, VecLenAx, VecLenY, launches, lastError, grp,
                 log, nwr, vlog, calls, blk, sDot>>

\* line 58, first half of BlockReduce(temp).Sum(val): the lanes of t's warp
\* reduce by shuffles once all of them are there, the warp's first lane
\* deposits the aggregate in its temp, and t arrives at cub's barrier
DotSum(t) ==
  /\ ln[t].pc = "sum"
  /\ \A u \in Lanes : WarpOf(u) = WarpOf(t) => ln[u].began >= ln[t].began
  /\ LET vals == [u \in Lanes |-> ln[u].val]
         w == WarpOf(t)
     IN ln' = [ln EXCEPT ![t] =
          [@ EXCEPT !.temp = IF t = w * warpSize
                               THEN [@ EXCEPT ![w] = WarpAggregate(vals, w)]
                               ELSE @,
                    !.arr = @ + 1,
                    !.pc = "cubsync"]]
  /\ UNCHANGED <<inputs, mem, hpc, VecLenAx, VecLenY, launches, lastError, grp,
                 log, nwr, vlog, calls, blk, sDot, slog>>

\* line 58, second half, and lines 59-63: past cub's barrier lane 0 adds up
\* the warp aggregates of its temp, any other lane is left with an undefined
\* value; with broadcast lane 0 then writes sDot[0] and the lane arrives at
\* the barrier of line 63
DotAggregate(t) ==
  /\ ln[t].pc = "cubsync"
  /\ BarrierOpen(t)
  /\ \E u \in UndefinedOutcomes :
       LET vals == [l \in Lanes |-> ln[l].val]
           dot == IF t = 0 THEN SumUpTo(ln[t].temp, NumWarps)
                  ELSE BlockReduceSumOther(t, vals, u)
       IN /\ ln' = [ln EXCEPT ![t] =
               [@ EXCEPT !.dot = dot,
                         !.fin = @ + 1,
                         !.arr = IF ln[t].bc THEN @ + 1 ELSE @,
                         !.pc = IF ln[t].bc THEN "bsync" ELSE "ret"]]
          /\ sDot' = IF ln[t].bc /\ t = 0 THEN dot ELSE sDot
          /\ slog' = IF ln[t].bc /\ t = 0
                       THEN slog \cup {SAccess(t, "w", NumWarps)}
                       ELSE slog
  /\ UNCHANGED <<inputs, mem, hpc, VecLenAx, VecLenY, launches, lastError, grp,
                 log, nwr, vlog, calls, blk>>

\* line 64: past the barrier of line 63 every lane reads sDot[0]
DotBcastRead(t) ==
  /\ ln[t].pc = "bsync"
  /\ BarrierOpen(t)
  /\ ln' = [ln EXCEPT ![t] = [@ EXCEPT !.dot = sDot, !.pc = "ret"]]
  /\ slog' = slog \cup {SAccess(t, "r", NumWarps)}
  /\ UNCHANGED <<inputs, mem, hpc, VecLenAx, VecLenY, launches, lastError, grp,
                 log, nwr, vlog, calls, blk, sDot>>

\* line 66; back in gemvKernel, line 94 stores the value in _y[j] and the
\* lane arrives at the __syncthreads() of line 96
DotReturn(t) ==
  /\ ln[t].pc = "ret"
  /\ ln' = [ln EXCEPT ![t] =
       IF ln[t].caller = "gemvKernel"
         THEN LET r == [@ EXCEPT !.y = [@ EXCEPT ![ln[t].j] = ln[t].dot]]
              IN IF SyncGuard(t)
                   THEN [r EXCEPT !.arr = @ + 1, !.nsync = @ + 1, !.pc = "sync"]
                   ELSE LaneNextSubRow(r, t)
         ELSE [@ EXCEPT !.pc = "returned"]]
  /\ UNCHANGED <<inputs, mem, hpc, VecLenAx, VecLenY, launches, lastError, grp,
                 log, nwr, vlog, calls, blk, sDot, slog>>

\* line 96: the lane leaves the barrier
LaneSync(t) ==
  /\ Kernel(blk)
  /\ ln[t].pc = "sync"
  /\ BarrierOpen(t)
  /\ ln' = [ln EXCEPT ![t] = LaneNextSubRow(@, t)]
  /\ UNCHANGED <<inputs, mem, hpc, VecLenAx, VecLenY, launches, lastError, grp,
                 log, nwr, vlog, calls, blk, sDot, slog>>

\* lines 99-107 on lane t, then the increment of line 87
LaneEpilogue(t) ==
  /\ Kernel(blk)
  /\ ln[t].pc = "epilogue"
  /\ LET r == ln[t]
         off == blk * m + r.i
         chunk == 0 .. (VecLenY - 1)
         zv == IF beta # 0 THEN KernelLoadZ(mem, off) ELSE r.z
         yv == [j \in chunk |->
                  OpCall(blk, t, r.y[j], zv[j], EpilogueIdx(blk, r.i, j)).ret]
     IN /\ mem' = KernelStore(mem, off, yv)
        /\ ln' = [ln EXCEPT ![t] = LaneNextRows([r EXCEPT !.z = zv, !.y = yv])]
  /\ UNCHANGED <<sizeofT, m, n, batchSize, alpha, beta, op, seedY, warpSize, smem,
                 hpc, VecLenAx, VecLenY, launches, lastError, grp,
                 log, nwr, vlog, calls, blk, sDot, slog>>

(***************************************************************************)
(* The specification.                                                      *)
(***************************************************************************)
\* the call of gemv: its arguments, the caller's buffers, the host about to
\* enter gemv, nothing launched, empty histories
InitCall ==
  /\ sizeofT \in ElemSizes
  /\ m \in 1 .. MaxM
  /\ n \in 1 .. MaxN
  /\ batchSize \in 1 .. MaxBatch
  /\ (batchSize = 1 \/ batchSize * m * n <= MaxBatchCells)
  /\ alpha \in Alphas
  /\ beta \in Betas
  /\ op \in EpilogueOps
  /\ seedY \in Seeds
  /\ warpSize \in {1, TPB}
  /\ \E g \in SmemGarbage :
       smem = [b \in Groups |-> [w \in 0 .. (NumWarps - 1) |-> g]]
  /\ mem = [y |-> BufY(seedY), A |-> BufA, x |-> BufX, z |-> BufZ]
  /\ hpc = "gemv"
  /\ VecLenAx = 0
  /\ VecLenY = 0
  /\ launches = << >>
  /\ lastError = "cudaSuccess"
  /\ grp = << >>
  /\ log = {}
  /\ nwr = [k \in 0 .. (batchSize * m - 1) |-> 0]
  /\ vlog = {}
  /\ calls = [k \in 0 .. (batchSize * m - 1) |-> << >>]
  /\ ln = [t \in Lanes |-> LaneAtEntry]
  /\ slog = {}

Init ==
  /\ InitCall
  /\ blk = 0
  /\ sDot = 0

Next ==
  \/ gemv
  \/ gemvImplAx
  \/ gemvImplY
  \/ \E b \in Groups : LoadX(b)
  \/ \E b \in Groups : RowReduce(b)
  \/ \E b \in Groups : Epilogue(b)

Spec == Init /\ [][Next]_vars

Done == hpc = "returned" /\ lastError = "cudaSuccess"
        /\ \A b \in Groups : grp[b].pc = "done"

(***************************************************************************)
(* The lane-level specification: the same call, with the lanes of one      *)
(* group, blk, followed step by step under every interleaving.  The word   *)
(* behind the TempStorage holds what the TempStorage holds.  The inputs    *)
(* are those of the call with 4-, 8- and 16-byte elements (widths 1, 2, 4),*)
(* the identity epilogue and a nonzero alpha.  Each lane that can take a   *)
(* step eventually does (the hardware schedules every resident warp), and  *)
(* so does the host.                                                       *)
(***************************************************************************)
LaneElemSizes == {4, 8, 16}

InitLanes ==
  /\ InitCall
  /\ sizeofT \in LaneElemSizes
  /\ alpha # 0
  /\ op = "Nop"
  /\ seedY = 0
  /\ blk \in Groups
  /\ sDot = smem[blk][0]

LaneNext(t) ==
  \/ LaneLoadX(t)
  \/ LaneLoadA(t)
  \/ DotVal(t)
  \/ DotSum(t)
  \/ DotAggregate(t)
  \/ DotReturn(t)
  \/ LaneSync(t)
  \/ LaneEpilogue(t)

HostNext == gemv \/ gemvImplAx \/ gemvImplY

NextLanes ==
  \/ gemv
  \/ gemvImplAx
  \/ gemvImplY
  \/ \E t \in Lanes : LaneLoadX(t)
  \/ \E t \in Lanes : LaneLoadA(t)
  \/ \E t \in Lanes : DotVal(t)
  \/ \E t \in Lanes : DotSum(t)
  \/ \E t \in Lanes : DotAggregate(t)
  \/ \E t \in Lanes : DotReturn(t)
  \/ \E t \in Lanes : LaneSync(t)
  \/ \E t \in Lanes : LaneEpilogue(t)

SpecLanes == InitLanes /\ [][NextLanes]_vars

FairSpecLanes ==
  /\ InitLanes /\ [][NextLanes]_vars
  /\ WF_vars(HostNext)
  /\ \A t \in Lanes : WF_vars(LaneNext(t))

LanesDone == hpc = "returned" /\ lastError = "cudaSuccess"
             /\ \A t \in Lanes : ln[t].pc = "exit"

(***************************************************************************)
(* dotProduct on its own: one group calls dotProduct once, each lane with  *)
(* its two chunks in registers, with either value of broadcast, over a     *)
(* shared memory that has room for the TempStorage and for sDot[0]; the    *)
(* lanes run under every interleaving.  len is n, VecLen is VecLenAx.      *)
(***************************************************************************)
DotVecLens == {1, 2}

\* the registers of lane t at the entry of dotProduct
LaneAtDotProduct(t, broadcast) ==
  [pc |-> "val", i |-> 0, j |-> 0,
   x |-> [e \in 0 .. (VecLenAx - 1) |-> GenX(t * VecLenAx + e)],
   a |-> [e \in 0 .. (VecLenAx - 1) |-> GenA(t * VecLenAx + e + seedY)],
   y |-> << >>, z |-> << >>,
   val |-> 0, temp |-> << >>, dot |-> 0,
   bc |-> broadcast, caller |-> "none",
   began |-> 0, fin |-> 0, arr |-> 0, nsync |-> 0]

InitDot ==
  /\ sizeofT = 1 /\ m = 1 /\ batchSize = 1 /\ blk = 0
  /\ alpha = 0 /\ beta = 0 /\ op = "Nop"
  /\ n \in 0 .. MaxN
  /\ VecLenAx \in DotVecLens
  /\ VecLenY = 0
  /\ seedY \in Seeds
  /\ warpSize \in {1, TPB}
  /\ \E g \in SmemGarbage :
       smem = [b \in Groups |-> [w \in 0 .. (NumWarps - 1) |-> g]]
  /\ sDot \in SmemGarbage
  /\ mem = [y |-> BufY(seedY), A |-> BufA, x |-> BufX, z |-> BufZ]
  /\ hpc = "dotProduct"
  /\ launches = << >>
  /\ lastError = "cudaSuccess"
  /\ grp = << >>
  /\ log = {}
  /\ nwr = [k \in 0 .. (batchSize * m - 1) |-> 0]
  /\ vlog = {}
  /\ calls = [k \in 0 .. (batchSize * m - 1) |-> << >>]
  /\ \E broadcast \in BOOLEAN :
       ln = [t \in Lanes |-> LaneAtDotProduct(t, broadcast)]
  /\ slog = {}

NextDot ==
  \/ \E t \in Lanes : DotVal(t)
  \/ \E t \in Lanes : DotSum(t)
  \/ \E t \in Lanes : DotAggregate(t)
  \/ \E t \in Lanes : DotBcastRead(t)
  \/ \E t \in Lanes : DotReturn(t)

SpecDot == InitDot /\ [][NextDot]_vars

(***************************************************************************)
(* gemvKernel as a function of the buffers: what one run of the kernel     *)
(* leaves in y when it starts from y0.                                     *)
(***************************************************************************)
\* lines 89-95 for row r of group b: the value _y[j] of lane 0
KernelDot(b, r) ==
  BlockReduceSum0(b, [t \in Lanes |->
    dotProductVal(t, KernelChunkA(b, r, t), KernelChunkX(b, t), n, VecLenAx)])

\* lines 83, 98-107: the additive term is the chunk loaded from y (line 100)
\* when beta # 0 and the zero fill of line 83 otherwise
KernelY(y0) ==
  [k \in DOMAIN y0 |->
     ApplyOp(op,
             alpha * KernelDot(k \div m, k % m)
               + beta * (IF beta # 0 THEN y0[k] ELSE 0),
             k)]

(***************************************************************************)
(* Reference values the claims are stated against.                         *)
(***************************************************************************)
\* (A_b x_b)[r] over the caller's buffers
RefDot(b, r) ==
  SumUpTo([c \in 0 .. (n - 1) |->
             mem.A[b * m * n + r * n + c] * mem.x[b * n + c]], n)

\* epilogue(alpha * A_b x_b + beta * zbuf), elementwise
RefY(zbuf) ==
  [k \in DOMAIN mem.y |->
     ApplyOp(op, alpha * RefDot(k \div m, k % m) + beta * zbuf[k], k)]

\* each row fits in one group
Fits == n <= TPB * VecLenAx

ByteWidths == {16, 8, 4, 2, 1}

\* the largest byte width that divides `bytes`
LargestWidth(bytes) ==
  CHOOSE w \in ByteWidths :
    bytes % w = 0 /\ \A v \in ByteWidths : bytes % v = 0 => v <= w

AllZero(chunk) == \A e \in DOMAIN chunk : chunk[e] = 0

(***************************************************************************)
(* C1: when each row fits in one group, after gemv completes every         *)
(* y[b*m + r] is epilogue(alpha * (A_b x_b)[r] + beta * z[b*m + r], b*m+r) *)
(* with z the caller's z buffer; it fails on the code (line 100 loads the  *)
(* additive term from y, line 56 reduces over a private TempStorage).      *)
(***************************************************************************)
C1_GemvResult == (Done /\ Fits) => mem.y = RefY(mem.z)

(***************************************************************************)
(* C2: the final y does not depend on what y held before the call: the     *)
(* run from any other initial content of y ends with the same y.  It       *)
(* fails on the code for beta # 0.                                         *)
(***************************************************************************)
C2_OutputIndependentOfInitialY ==
  Done => \A s \in Seeds : KernelY(BufY(s)) = mem.y

(***************************************************************************)
(* C3: with beta = 0 no lane reads z and the result is                     *)
(* epilogue(alpha * (A_b x_b)[r], b*m + r) for every b and r; the value    *)
(* part fails on the code.                                                 *)
(***************************************************************************)
C3_BetaZero ==
  beta = 0 =>
    /\ \A a \in log : a.buf # "z"
    /\ Done => mem.y = [k \in DOMAIN mem.y |->
                          ApplyOp(op, alpha * RefDot(k \div m, k % m), k)]

(***************************************************************************)
(* C4: every y element is stored exactly once, by lane 0 of its own group; *)
(* no other lane stores, no element is stored twice.                       *)
(***************************************************************************)
C4_WriteOnce ==
  /\ \A k \in DOMAIN nwr : nwr[k] <= 1
  /\ \A a \in log :
       a.rw = "w" => /\ a.buf = "y"
                     /\ a.t = 0
                     /\ a.k \in 0 .. (batchSize * m - 1)
                     /\ a.b = a.k \div m
  /\ \A b \in DOMAIN grp : \A k \in (b * m) .. ((b + 1) * m - 1) :
       /\ nwr[k] = 1 <=> Access("y", "w", k, b, 0, k - b * m, -1) \in log
       /\ nwr[k] = 1 <=> (grp[b].pc = "done" \/ (grp[b].pc # "loadx" /\ k - b * m < grp[b].i))
  /\ Done => \A k \in DOMAIN nwr : nwr[k] = 1

C4_Witness == Done /\ batchSize = 2 /\ m = 2 /\ VecLenY = 1

(***************************************************************************)
(* C5: group b reads A only in [b*m*n, (b+1)*m*n), x only in               *)
(* [b*n, (b+1)*n), the output slice only in [b*m, (b+1)*m) and writes y    *)
(* only there; no location written by one group is touched by another; and *)
(* whatever the order of the groups, the final y is the kernel's function  *)
(* of the buffers.                                                         *)
(***************************************************************************)
C5_BatchIsolation ==
  /\ \A a \in log :
       /\ a.buf = "A" => a.k \in (a.b * m * n) .. ((a.b + 1) * m * n - 1)
       /\ a.buf = "x" => a.k \in (a.b * n) .. ((a.b + 1) * n - 1)
       /\ a.buf \in {"y", "z"} => a.k \in (a.b * m) .. ((a.b + 1) * m - 1)
  /\ \A a1 \in {a \in log : a.rw = "w"} : \A a2 \in log :
       (a1.buf = a2.buf /\ a1.k = a2.k) => a1.b = a2.b
  /\ Done => mem.y = KernelY(BufY(seedY))

\* group 1 has finished before group 0 has started
C5_Witness ==
  /\ batchSize = 2 /\ hpc = "returned" /\ lastError = "cudaSuccess"
  /\ grp[1].pc = "done" /\ grp[0].pc = "loadx" /\ m = 2

(***************************************************************************)
(* C6: no step writes A, x, z, alpha or beta; the only global memory the   *)
(* kernel modifies is y at indices in [0, batchSize*m).                    *)
(***************************************************************************)
C6_Frame ==
  [][/\ mem'.A = mem.A /\ mem'.x = mem.x /\ mem'.z = mem.z
     /\ alpha' = alpha /\ beta' = beta
     /\ DOMAIN mem'.y = 0 .. (batchSize * m - 1)
     /\ \A a \in log' \ log :
          a.rw = "w" => a.buf = "y" /\ a.k \in 0 .. (batchSize * m - 1)]_vars

C6_Witness == \E a \in log : a.rw = "w" /\ mem.y # BufY(seedY)

(***************************************************************************)
(* C7: VecLenAx is w / sizeof(T) for the largest byte width w of           *)
(* 16, 8, 4, 2, 1 dividing n * sizeof(T), VecLenY the same against         *)
(* m * sizeof(T); the count is always >= 1; 4-byte elements select 4       *)
(* elements for n = 8 and 1 element for n = 3.                             *)
(***************************************************************************)
C7_WidthSelection ==
  /\ VecLenAx # 0 =>
       VecLenAx = LargestWidth(n * sizeofT) \div sizeofT /\ VecLenAx >= 1
  /\ VecLenY # 0 =>
       VecLenY = LargestWidth(m * sizeofT) \div sizeofT /\ VecLenY >= 1
  /\ hpc = "gemvImplAx" =>
       \A cnt \in 1 .. (2 * MaxN) :
         /\ gemvVecLenAx(sizeofT, cnt) = LargestWidth(cnt * sizeofT) \div sizeofT
         /\ gemvImplAxVecLenY(sizeofT, cnt) = LargestWidth(cnt * sizeofT) \div sizeofT
         /\ gemvVecLenAx(sizeofT, cnt) >= 1
  /\ (hpc = "gemvImplAx" /\ sizeofT = 4) =>
       gemvVecLenAx(sizeofT, 8) = 4 /\ gemvVecLenAx(sizeofT, 3) = 1

C7_Witness ==
  hpc = "gemvImplY" /\ sizeofT = 4 /\ n = 4 /\ VecLenAx = 4 /\ m = 3 /\ VecLenY = 1

(***************************************************************************)
(* C8: a rejected launch is surfaced: gemv issues exactly one launch, with *)
(* the widths the dispatcher chose, never a second one, and a launch       *)
(* status other than success always ends in the throw.                     *)
(***************************************************************************)
C8_LaunchFailureSurfaced ==
  /\ Len(launches) <= 1
  /\ hpc \in {"returned", "thrown"} =>
       /\ Len(launches) = 1
       /\ launches[1].VecLenAx = gemvVecLenAx(sizeofT, n)
       /\ launches[1].VecLenY = gemvImplAxVecLenY(sizeofT, m)
       /\ launches[1].TPB = TPB
  /\ hpc = "returned" => lastError = "cudaSuccess"
  /\ lastError # "cudaSuccess" =>
       hpc = "thrown" /\ grp = << >> /\ log = {} /\ mem.y = BufY(seedY)

C8_Witness == hpc = "thrown" /\ lastError # "cudaSuccess" /\ Len(launches) = 1

(***************************************************************************)
(* C9: for every m >= 1 and element size in {1, 2, 4, 8, 16} the chosen    *)
(* VecLenY divides m, so every row i + j the sweep visits is below m: no   *)
(* row of A at or past m is read, no y/z element of such a row is read or  *)
(* written.                                                                *)
(***************************************************************************)
C9_TailRows ==
  /\ VecLenY # 0 => m % VecLenY = 0
  /\ hpc = "gemvImplAx" =>
       \A rows \in 1 .. (4 * MaxM) : rows % gemvImplAxVecLenY(sizeofT, rows) = 0
  /\ \A b \in DOMAIN grp :
       grp[b].pc \in {"row", "epilogue"} =>
         grp[b].i + grp[b].j < m /\ grp[b].i + VecLenY <= m
  /\ \A a \in log : a.row # -1 => (a.row >= 0 /\ a.row < m)
  /\ \A a \in log : a.buf = "A" => a.k < (a.b + 1) * m * n
  /\ \A a \in log : a.buf \in {"y", "z"} => a.k < (a.b + 1) * m

\* two outer iterations of two sub-rows each have run
C9_Witness == Done /\ VecLenY = 2 /\ m = 4 /\ sizeofT = 8

(***************************************************************************)
(* C10: with idx = lane * VecLenAx, a lane with idx >= n loads nothing     *)
(* from x or A, holds all-zero chunks and contributes 0 to every           *)
(* reduction; a lane with idx < n reads columns [idx, idx + VecLenAx)      *)
(* only, all inside [0, n); no column >= n is ever read.                   *)
(***************************************************************************)
C10_ColumnBounds ==
  /\ VecLenAx # 0 => n % VecLenAx = 0
  /\ \A a \in log :
       a.buf \in {"x", "A"} =>
         /\ LaneIdx(a.t) < n
         /\ a.col >= LaneIdx(a.t) /\ a.col < LaneIdx(a.t) + VecLenAx
         /\ a.col < n
         /\ a.k = (IF a.buf = "x" THEN a.b * n + a.col
                   ELSE a.b * m * n + a.row * n + a.col)
  /\ \A b \in DOMAIN grp : \A t \in Lanes :
       (LaneIdx(t) >= n /\ grp[b].pc # "loadx") =>
         /\ AllZero(grp[b].x[t])
         /\ AllZero(grp[b].a[t])
         /\ grp[b].val[t] = 0
         /\ \A a \in log : (a.b = b /\ a.t = t) => a.buf \notin {"x", "A"}

\* lane 1 lies past the row and has been through every reduction of m >= 2
\* rows, while lane 0 loaded its chunks
C10_Witness ==
  /\ Done /\ m >= 2 /\ LaneIdx(1) >= n
  /\ \E a \in log : a.buf = "A" /\ a.t = 0 /\ a.row = m - 1

(***************************************************************************)
(* C11: with the widths the dispatcher chose, every vectorized access the  *)
(* kernel issues has an element offset that is a multiple of its width:    *)
(* b*n + idx and b*m*n + (i+j)*n + idx are multiples of VecLenAx, b*m + i  *)
(* (the load of the additive chunk and the store of y) is a multiple of    *)
(* VecLenY, for all b, i, j and lanes.                                     *)
(***************************************************************************)
C11_Alignment ==
  /\ \A a \in vlog :
       /\ a.L = (IF a.buf \in {"x", "A"} THEN VecLenAx ELSE VecLenY)
       /\ a.off % a.L = 0
       /\ a.buf = "x" => a.off = a.b * n + LaneIdx(a.t)
       /\ a.buf = "A" =>
            \E row \in 0 .. (m - 1) : a.off = a.b * m * n + row * n + LaneIdx(a.t)
       /\ a.buf \in {"y", "z"} =>
            \E i \in 0 .. (m - 1) : i % VecLenY = 0 /\ a.off = a.b * m + i
  /\ hpc = "gemvImplY" =>
       \A b \in 0 .. (2 * MaxBatch) : \A t \in 0 .. (2 * TPB) :
         /\ (b * n + LaneIdx(t)) % VecLenAx = 0
         /\ \A row \in 0 .. (m - 1) :
              (BatchOffset(b) + row * n + LaneIdx(t)) % VecLenAx = 0
         /\ \A i \in {r \in 0 .. (m - 1) : r % VecLenY = 0} :
              (b * m + i) % VecLenY = 0

\* lane 1 loaded a two-element chunk of a row past the first, and lane 0
\* loaded and stored the second two-element chunk of the output slice
C11_Witness ==
  /\ Done
  /\ \E a \in vlog : a.buf = "A" /\ a.L = 2 /\ a.t = 1 /\ a.off > 2
  /\ \E a \in vlog : a.buf = "y" /\ a.rw = "r" /\ a.L = 2 /\ a.off = 2
  /\ \E a \in vlog : a.buf = "y" /\ a.rw = "w" /\ a.L = 2 /\ a.off = 2

(***************************************************************************)
(* C12: within a group, under any interleaving of the lanes, no lane       *)
(* begins the reduction of the next sub-row (line 56, its first access to  *)
(* the shared scratch for that row) before every lane has finished the     *)
(* reduction of the current one, and every lane has arrived at the         *)
(* __syncthreads() of line 96 between two consecutive reductions, also     *)
(* from the last sub-row of one outer iteration to the first of the next.  *)
(***************************************************************************)
C12_ScratchReuseOrdering ==
  /\ \A t \in Lanes : \A u \in Lanes :
       /\ ln[t].began <= ln[u].fin + 1
       /\ ln[t].began <= ln[u].nsync + 1
  /\ \A t \in Lanes :
       /\ ln[t].fin <= ln[t].began
       /\ ln[t].nsync <= ln[t].fin
       /\ ln[t].pc \in {"loada", "val"} =>
            ln[t].began = ln[t].i + ln[t].j /\ ln[t].nsync = ln[t].began
  /\ \A a \in slog : a.rw = "r" => ln[a.t].began >= 1

\* lane 0 has begun the first reduction of the second outer iteration while
\* lane 1, done with the last reduction of the first, still sits in the barrier
C12_Witness ==
  /\ VecLenY = 2 /\ ln[0].i = 2 /\ ln[0].j = 0 /\ ln[0].began = 3
  /\ ln[0].pc = "sum"
  /\ ln[1].pc = "sync" /\ ln[1].fin = 2 /\ ln[1].i = 0

(***************************************************************************)
(* C13: every lane of a group, also a lane whose column offset is >= n and *)
(* a lane other than lane 0, arrives at the __syncthreads() of line 96     *)
(* exactly m times, once after every row's reduction; no lane leaves the   *)
(* kernel or runs ahead while another lane waits at a barrier it has not   *)
(* arrived at; and the group, once launched, eventually finishes.          *)
(***************************************************************************)
C13_BarrierUniformity ==
  /\ [](\A t \in Lanes :
          /\ ln[t].pc = "exit" => ln[t].nsync = m
          /\ ln[t].nsync <= m
          /\ ln[t].pc \in {"loada", "val", "sum", "cubsync", "ret"} =>
               ln[t].nsync = ln[t].i + ln[t].j
          /\ \A u \in Lanes :
               /\ ln[t].nsync <= ln[u].nsync + 1
               /\ (ln[t].pc = "exit" /\ ln[u].pc \in {"sync", "cubsync"}) =>
                    ln[t].arr >= ln[u].arr)
  /\ (hpc = "returned") ~> LanesDone

\* the group has finished a sweep of several rows in which lane 1 lay past
\* the row and loaded nothing
C13_Witness ==
  LanesDone /\ m >= 3 /\ VecLenY = 1 /\ LaneIdx(1) >= n /\ ln[1].nsync = m

(***************************************************************************)
(* C14: the launch asks for dynamic shared memory of exactly the size of   *)
(* the reducer's TempStorage, with no further slot; gemvKernel calls       *)
(* dotProduct with broadcast = false only, so sDot[0], the word at offset  *)
(* sizeof(TempStorage), is never read or written; and no lane touches      *)
(* shared memory outside the region the launch allocated.                  *)
(***************************************************************************)
C14_ScratchSizing ==
  /\ \A k \in 1 .. Len(launches) : launches[k].smemSize = NumWarps
  /\ \A t \in Lanes : ln[t].bc = FALSE /\ ln[t].pc # "bsync"
  /\ sDot = smem[blk][0]
  /\ \A a \in slog :
       /\ a.word # NumWarps
       /\ Len(launches) = 1
       /\ a.word >= 0 /\ a.word < launches[1].smemSize

\* a group of two warps has run several reductions: both lanes have copied
\* both words of the TempStorage
C14_Witness ==
  /\ LanesDone /\ m >= 2 /\ NumWarps = 2
  /\ \A t \in Lanes : \A w \in 0 .. 1 : SAccess(t, "r", w) \in slog

(***************************************************************************)
(* C16: dotProduct with broadcast = false returns on lane 0 the sum of all *)
(* lanes' partial sums; with broadcast = true it returns that value on     *)
(* every lane.  It fails on the code: a group of more than one warp        *)
(* reduces over per-lane copies of the TempStorage (line 56), so lane 0    *)
(* returns its own warp's sum plus what the shared memory happened to hold.*)
(***************************************************************************)
C16_ReducerVisibility ==
  LET full == SumUpTo([t \in Lanes |->
                         dotProductVal(t, ln[t].a, ln[t].x, n, VecLenAx)], TPB)
  IN \A t \in Lanes :
       ln[t].pc = "returned" =>
         /\ t = 0 => ln[t].dot = full
         /\ ln[t].bc => ln[t].dot = full

(***************************************************************************)
(* C15: for every output element (b, r) the epilogue is invoked exactly    *)
(* once, by lane 0 of group b, with the arguments                          *)
(* (alpha * dot + beta * zTerm, b*m + r), dot being what the reducer       *)
(* returned on lane 0 for row r and zTerm the additive chunk's element,    *)
(* and the value stored to y[b*m + r] is the value it returned; with the   *)
(* clamping epilogue every stored output is >= 0.                          *)
(***************************************************************************)
C15_EpilogueApplication ==
  /\ \A k \in DOMAIN calls :
       /\ Len(calls[k]) <= 1
       /\ Len(calls[k]) = nwr[k]
       /\ Len(calls[k]) = 1 =>
            LET c == calls[k][1]
                b == k \div m
                r == k % m
            IN /\ c.t = 0 /\ c.b = b
               /\ c.idx = b * m + r
               /\ c.dot = KernelDot(b, r)
               /\ c.zTerm = (IF beta # 0 THEN BufY(seedY)[k] ELSE 0)
               /\ c.arg = alpha * c.dot + beta * c.zTerm
               /\ c.ret = ApplyOp(op, c.arg, k)
               /\ mem.y[k] = c.ret
               /\ op = "Relu" => mem.y[k] >= 0
  /\ Done => \A k \in DOMAIN calls : Len(calls[k]) = 1

\* the clamping epilogue was handed a negative value for an element of the
\* second group and zero was stored
C15_Witness ==
  /\ Done /\ op = "Relu" /\ batchSize = 2
  /\ \E k \in DOMAIN calls :
       k >= m /\ Len(calls[k]) = 1 /\ calls[k][1].arg < 0 /\ mem.y[k] = 0

(***************************************************************************)
(* C17: no check that a row fits in one group: the launch is issued        *)
(* whatever n is, columns at or past TPB * VecLenAx are never loaded, each *)
(* y element is computed from the first TPB * VecLenAx columns of its row, *)
(* and every column of [0, n) is covered by exactly one lane iff           *)
(* n <= TPB * VecLenAx.  The value part fails on the code: with more than  *)
(* one warp lane 0 sums its own warp's columns and what the shared memory  *)
(* held (line 56).                                                         *)
(***************************************************************************)
C17_Capacity ==
  LET cap == TPB * VecLenAx
      cols == IF n < cap THEN n ELSE cap
      TruncDot(b, r) ==
        SumUpTo([c \in 0 .. (cols - 1) |->
                   mem.A[b * m * n + r * n + c] * mem.x[b * n + c]], cols)
      Covering(b, c) ==
        {t \in Lanes : \E a \in log : a.buf = "x" /\ a.b = b /\ a.t = t /\ a.col = c}
  IN /\ hpc \in {"returned", "thrown"} => Len(launches) = 1
     /\ (hpc = "returned" /\ n > cap) => lastError = "cudaSuccess"
     /\ \A a \in log : a.buf \in {"x", "A"} => a.col < cap
     /\ Done =>
          /\ \A b \in Groups : \A c \in 0 .. (n - 1) :
               Cardinality(Covering(b, c)) = (IF c < cap THEN 1 ELSE 0)
          /\ (\A b \in Groups : \A c \in 0 .. (n - 1) :
                Cardinality(Covering(b, c)) = 1) <=> Fits
          /\ mem.y = [k \in DOMAIN mem.y |->
                        ApplyOp(op,
                                alpha * TruncDot(k \div m, k % m)
                                  + beta * (IF beta # 0 THEN BufY(seedY)[k] ELSE 0),
                                k)]

(***************************************************************************)
(* C18: when beta # 0 lane 0 reads each chunk of the output slice before   *)
(* it stores that chunk and never after, so the additive term is what the  *)
(* buffer held before the call; hence, called with the same buffer for y   *)
(* and z, the result is epilogue(alpha * A x + beta * initial buffer).     *)
(* The kernel never dereferences z, so every run is also the run of that   *)
(* call.  The value part fails on the code (line 56; rows past the         *)
(* group's capacity).                                                      *)
(***************************************************************************)
C18_InPlaceUpdate ==
  beta # 0 =>
    /\ \A a \in log : (a.buf = "y" /\ a.rw = "r") => a.t = 0
    /\ \A k \in DOMAIN calls :
         Len(calls[k]) = 1 =>
           /\ calls[k][1].zTerm = BufY(seedY)[k]
           /\ \E a \in log : a.buf = "y" /\ a.rw = "r" /\ a.k = k
    /\ \A a \in log : (a.buf = "y" /\ a.rw = "r") => Len(calls[a.k]) = 1
    /\ Done => mem.y = RefY(BufY(seedY))

====
